---- MODULE Spec2Model ----
(***************************************************************************)
(* A model of hermitage-alchemy: the foreign-key graph and link resolver   *)
(* (configuration.py), the query builder (assembling.py), the read         *)
(* executor and the write executors/clients (execution/*.py, plugins/).    *)
(* Each part of the program has its own variables and its own              *)
(* specification; a specification leaves the other parts' variables alone. *)
(***************************************************************************)
EXTENDS Integers, Sequences, FiniteSets, TLC

\* ------------------------------------------------------------------ bounds
\* the largest number of foreign keys of a schema
MaxFks == 2
\* the largest number of elements one bucket walk visits, nested buckets included
MaxElems == 4
\* the deepest nesting of joined buckets (1: the top-level bucket alone)
MaxDepth == 2
\* the largest number of elements of a write invoice
MaxInvoice == 3
\* the largest number of nested buckets of one bucket of a read request
MaxKids == 2
\* the largest number of rows a statement returns
MaxRows == 2
\* the deepest chain of child fetches of a read (1: the parent statement alone)
MaxReadDepth == 3
\* the top-level buckets of one request
MaxBuckets == 2
\* the statements one bucket's task may execute
MaxTaskStmts == 2
\* the elements of a filter expression
MaxExpr == 3
\* the units of a Space
MaxUnits == 2
\* the lookups made on one Schema
MaxLookups == 2
\* the longest order expression, in elements
MaxOrder == 3

\* ------------------------------------------------------------- value types
None == "None"

\* the tables of a schema, in the order Schema.__init__ receives them
TableOrder == <<"a", "b", "c", "d", "j", "e", "g">>
TableNames == {TableOrder[i] : i \in 1..Len(TableOrder)}

\* the tables over which the link resolver's machine draws its foreign-key graphs
LinkTables == {"a", "b", "j"}

\* the qualifiers a track unit may carry (None: no qualifier)
Quas == {None, "alt"}

\* TrackUnit(name, qua): the last unit of a Space (label plays no part in links)
Units == [name : LinkTables, qua : Quas]

\* Fk(target_address, parent_address): parent table.column references target table.column
FkCols(t) == {t \o "_id", "alt_id"}
Fks == {[ptab |-> p, pcol |-> c, ttab |-> t, tcol |-> "id"] :
          <<p, t, c>> \in {x \in LinkTables \X LinkTables \X {"a_id", "b_id", "j_id", "alt_id"} :
                             x[3] \in FkCols(x[2])}}

\* Fk.__eq__(other: TrackUnit)
FkEq(fk, unit) ==
    /\ unit.name = fk.ttab
    /\ (unit.qua = None \/ (unit.qua \o "_id") = fk.pcol)

\* the position of a table in the iteration order of Schema._graph
TableIndex(t) == CHOOSE i \in 1..Len(TableOrder) : TableOrder[i] = t

\* ------------------------------------------------------ Schema.get_link
\* Schema._get_m2o: the links the loop can return (the foreign keys of one table
\* are a Python set, so which matching key comes first is not determined)
GetM2O(g, s, t) ==
    {[kind |-> "M2O", source |-> <<fk.ptab, fk.pcol>>, target |-> <<fk.ttab, fk.tcol>>,
      interim |-> <<>>] :
        fk \in {f \in g : f.ptab = s.name /\ FkEq(f, t)}}

\* Schema._get_o2m
GetO2M(g, s, t) ==
    {[kind |-> "O2M", source |-> <<fk.ttab, fk.tcol>>, target |-> <<fk.ptab, fk.pcol>>,
      interim |-> <<>>] :
        fk \in {f \in g : f.ptab = t.name /\ FkEq(f, s)}}

\* a table qualifies as interim when it owns a key matching each endpoint
IsInterim(g, tab, s, t) ==
    /\ \E f \in g : f.ptab = tab /\ FkEq(f, s)
    /\ \E f \in g : f.ptab = tab /\ FkEq(f, t)

\* Schema._get_m2m: the first table, in graph order, that qualifies
GetM2M(g, s, t) ==
    LET cands == {tab \in TableNames : IsInterim(g, tab, s, t)}
        first == CHOOSE tab \in cands : \A o \in cands : TableIndex(tab) <= TableIndex(o)
    IN  IF cands = {} THEN {}
        ELSE {[kind |-> "M2M", source |-> <<s.name, sf.tcol>>, target |-> <<t.name, tf.tcol>>,
               interim |-> <<first, sf.pcol, tf.pcol>>] :
                <<sf, tf>> \in {p \in g \X g : /\ p[1].ptab = first /\ FkEq(p[1], s)
                                               /\ p[2].ptab = first /\ FkEq(p[2], t)}}

\* a mutant: one-to-many is tried before many-to-one
GetLinkO2MFirst(g, s, t) ==
    IF GetO2M(g, s, t) # {} THEN GetO2M(g, s, t)
    ELSE IF GetM2O(g, s, t) # {} THEN GetM2O(g, s, t)
    ELSE GetM2M(g, s, t)

\* Schema.get_link: the set of links the call can return; {} stands for None
GetLink(g, s, t) ==
    LET m2o == GetM2O(g, s, t)
        o2m == GetO2M(g, s, t)
    IN  IF m2o # {} THEN m2o
        ELSE IF o2m # {} THEN o2m
        ELSE GetM2M(g, s, t)

Absent == [kind |-> None, source |-> <<>>, target |-> <<>>, interim |-> <<>>]

\* ------------------------------------------------------- example schema
\* a.b_id -> b.id, c.a_id -> a.id, j.a_id -> a.id, j.d_id -> d.id; e is unrelated
ExampleGraph ==
    {[ptab |-> "a", pcol |-> "b_id", ttab |-> "b", tcol |-> "id"],
     [ptab |-> "c", pcol |-> "a_id", ttab |-> "a", tcol |-> "id"],
     [ptab |-> "j", pcol |-> "a_id", ttab |-> "a", tcol |-> "id"],
     [ptab |-> "j", pcol |-> "d_id", ttab |-> "d", tcol |-> "id"]}

\* the example schema and g.c_id -> c.id, for requests nested three deep
ReadGraph ==
    ExampleGraph \cup {[ptab |-> "g", pcol |-> "c_id", ttab |-> "c", tcol |-> "id"]}

\* the columns of each table of the example schema
Columns(t) ==
    CASE t = "a" -> {"id", "b_id", "x"}
      [] t = "b" -> {"id", "x"}
      [] t = "c" -> {"id", "a_id", "x"}
      [] t = "d" -> {"id", "x"}
      [] t = "j" -> {"a_id", "d_id"}
      [] t = "e" -> {"id", "x"}
      [] t = "g" -> {"id", "c_id", "x"}
      [] OTHER -> {}

Last(seq) == seq[Len(seq)]
Unit(n) == [name |-> n, qua |-> None]

\* Python's None for a limit or an offset
NoVal == -1
\* Python truthiness of a limit or an offset
Truthy(v) == v # NoVal /\ v # 0

\* a column handle; NoColumn is get_column's None
NoColumn == [space |-> <<>>, name |-> None]

\* Schema.get_table, for a space of unqualified units: whether a table is found
HasTable(space) == Last(space) \in TableNames

\* Schema.get_column(Address(name, space))
GetColumn(space, name) ==
    IF HasTable(space) /\ name \in Columns(Last(space))
    THEN [space |-> space, name |-> name]
    ELSE NoColumn

\* a statement plan, or the error raised instead of one
Plan(kind, sel, joins, vals, fil, ord, lim, off) ==
    [status |-> "plan", kind |-> kind, err |-> None, select |-> sel, joins |-> joins,
     values |-> vals, where |-> fil, orders |-> ord, limit |-> lim, offset |-> off]
Raised(e) ==
    [status |-> "error", kind |-> None, err |-> e, select |-> <<>>, joins |-> <<>>,
     values |-> <<>>, where |-> <<>>, orders |-> <<>>, limit |-> NoVal, offset |-> NoVal]
NoResult == [Raised(None) EXCEPT !.status = "none"]

\* ---------------------------------------------------------------- state
VARIABLES
    graph,      \* Schema._graph, as the set of its foreign keys
    linkSrc,    \* the last unit of the source space of the last get_link call
    linkTgt,    \* the last unit of the target space of the last get_link call
    linkRes,    \* what the last get_link call returned (Absent: None)
    linkCalls   \* the number of get_link calls made

linkVars == <<graph, linkSrc, linkTgt, linkRes, linkCalls>>

VARIABLES
    qPc,        \* where Query.__call__ is: "new", "walk", "build", "done", "failed"
    qRoot,      \* bucket.name of the bucket being built
    qStack,     \* the active _process_bucket calls, innermost last
    qSelect,    \* Query._select
    qJoins,     \* Query._joins
    qValues,    \* Query._values
    qFilters,   \* Query._filters
    qOrders,    \* Query._orders
    qLimit,     \* Query._limit
    qOffset,    \* Query._offset
    qResult,    \* what Query.__call__ returned or raised
    qSkipped,   \* nested buckets the walk passed over because get_link returned None
    qDeferred,  \* nested buckets the walk passed over because their link is O2M or M2M
    qWalked     \* the number of elements walked so far

queryVars == <<qPc, qRoot, qStack, qSelect, qJoins, qValues, qFilters, qOrders,
               qLimit, qOffset, qResult, qSkipped, qDeferred, qWalked>>

VARIABLES
    wClient,     \* which write path serves the request: "storing" (storing.WriteClient)
                 \* or "write" (write.WriteExecutor)
    wRegistered, \* whether storing.WriteClient was given the upsert plugin
    wInvoice,    \* the elements of the invoice (bucket) of the request
    wResolved,   \* storing.WriteClient: the invoice _apply_plugins returned
    wConn,       \* the connection the executor was constructed with
    wPc,         \* "new", "plugins", "regular", "done", "failed"
    wPending,    \* the statements the running coroutine is about to execute, in order
    wLog         \* the statements handed to connection.execute, in order

writeVars == <<wClient, wRegistered, wInvoice, wResolved, wConn, wPc, wPending, wLog>>

VARIABLES
    rPc,      \* where the read of one bucket is: "new", "run", "done", "failed"
    rStack,   \* the active ReadExecutor.__call__ coroutines, innermost last
    rLog,     \* the statements handed to connection.execute, in order
    rRoot     \* the top-level bucket of the read: its table and its nested buckets

readVars == <<rPc, rStack, rLog, rRoot>>

VARIABLES
    fPc,        \* where the client's __call__ is: "new", "joining" (inside the
                \* TaskGroup's exit), "returned", "raised"
    fKind,      \* the client: "read" (read.ReadClient) or "write" (write.WriteClient)
    fConn,      \* the connection the client's one executor was constructed with
    fBuckets,   \* the number of buckets of the invoice
    fTasks,     \* `tasks`: per task its state, the statements it has handed over,
                \* whether its cancellation was requested, whether the group has
                \* seen it end
    fAborting,  \* the TaskGroup's _aborting
    fErrors,    \* the tasks whose exception the TaskGroup collected
    fInFlight   \* the execute calls that have not returned: task and connection

fanVars == <<fPc, fKind, fConn, fBuckets, fTasks, fAborting, fErrors, fInFlight>>

VARIABLES
    vPc,      \* where the assembly of one bucket's view is: "new", "rows", "done"
    vNested,  \* is_nested
    vLabels,  \* the column labels of the bucket's statement
    vChild,   \* the key of each row the child statement returned, in order
    vIndex,   \* nested_indexed_data: per deferred child its name, the parent's key
              \* label and the child rows indexed by key
    vRows,    \* the rows of bucket_data taken so far
    vData,    \* `data`: the rows assembled so far
    vMeta     \* `meta`

viewVars == <<vPc, vNested, vLabels, vChild, vIndex, vRows, vData, vMeta>>

VARIABLES
    cPc,      \* where FilterCompiler.__call__ is: "new", "loop", "done"
    cExpr,    \* the elements of the expression taken so far, in postfix order
    cStack,   \* `stack` of _compile
    cResult   \* what the call returned or raised

compileVars == <<cPc, cExpr, cStack, cResult>>

VARIABLES
    sPc,      \* "new", "space" (a Space exists), "named" (a name was produced from it
              \* and parsed back), "failed"
    sTrack,   \* Space._track: the units of the Space
    sForm,    \* which name was produced: "str" or "qualified_name"
    sName,    \* the name produced
    sBack     \* str(Space(name)) of the name produced

spaceVars == <<sPc, sTrack, sForm, sName, sBack>>

VARIABLES
    kTables,  \* Schema._tables, as the set of its table names
    kCache,   \* Schema._cache, as the set of its entries: key and cached handle
    kCalls,   \* the number of lookups made since construction
    kLast     \* what the last lookup returned (or that it raised)

schemaVars == <<kTables, kCache, kCalls, kLast>>

\* the order compiler: its position, the space of the instance, the elements
\* consumed, the local stack and the result list
VARIABLES oPc, oSpace, oExpr, oStack, oResult
orderVars == <<oPc, oSpace, oExpr, oStack, oResult>>
vars == <<linkVars, queryVars, writeVars, readVars, fanVars, viewVars, compileVars, spaceVars, schemaVars, orderVars>>

\* what each machine leaves alone
notLink == <<queryVars, writeVars, readVars, fanVars, viewVars, compileVars, spaceVars, schemaVars, orderVars>>
notQuery == <<linkVars, writeVars, readVars, fanVars, viewVars, compileVars, spaceVars, schemaVars, orderVars>>
notWrite == <<linkVars, queryVars, readVars, fanVars, viewVars, compileVars, spaceVars, schemaVars, orderVars>>
notRead == <<queryVars, writeVars, fanVars, viewVars, compileVars, spaceVars, schemaVars, orderVars>>
notFan == <<linkVars, queryVars, writeVars, readVars, viewVars, compileVars, spaceVars, schemaVars, orderVars>>
notView == <<linkVars, queryVars, writeVars, readVars, fanVars, compileVars, spaceVars, schemaVars, orderVars>>
notCompile == <<linkVars, queryVars, writeVars, readVars, fanVars, viewVars, spaceVars, schemaVars, orderVars>>
notSpace == <<linkVars, queryVars, writeVars, readVars, fanVars, viewVars, compileVars, schemaVars, orderVars>>
notSchema == <<linkVars, queryVars, writeVars, readVars, fanVars, viewVars, compileVars, spaceVars, orderVars>>
notOrder == <<linkVars, queryVars, writeVars, readVars, fanVars, viewVars, compileVars, spaceVars, schemaVars>>

\* ------------------------------------------- the link resolver's machine
Graphs == {g \in SUBSET Fks : Cardinality(g) <= MaxFks}

\* the query builder, at rest
QueryIdle ==
    /\ qPc = "new"
    /\ qRoot = None
    /\ qStack = <<>>
    /\ qSelect = <<>>
    /\ qJoins = <<>>
    /\ qValues = <<>>
    /\ qFilters = <<>>
    /\ qOrders = <<>>
    /\ qLimit = NoVal
    /\ qOffset = NoVal
    /\ qResult = NoResult
    /\ qSkipped = {}
    /\ qDeferred = {}
    /\ qWalked = 0

\* no write request
WriteIdle ==
    /\ wClient = "storing"
    /\ wRegistered = FALSE
    /\ wInvoice = <<>>
    /\ wResolved = <<>>
    /\ wConn = 1
    /\ wPc = "new"
    /\ wPending = <<>>
    /\ wLog = <<>>

\* no read request
ReadIdle ==
    /\ rPc = "new"
    /\ rStack = <<>>
    /\ rLog = <<>>
    /\ rRoot = [table |-> None, kids |-> <<>>]

\* no request of several buckets
FanIdle ==
    /\ fPc = "new"
    /\ fKind = "read"
    /\ fConn = 1
    /\ fBuckets = 0
    /\ fTasks = <<>>
    /\ fAborting = FALSE
    /\ fErrors = {}
    /\ fInFlight = {}

\* no view being assembled
ViewIdle ==
    /\ vPc = "new"
    /\ vNested = FALSE
    /\ vLabels = {}
    /\ vChild = <<>>
    /\ vIndex = <<>>
    /\ vRows = <<>>
    /\ vData = <<>>
    /\ vMeta = [has |-> FALSE, total |-> NoVal]

\* no filter being compiled
CompileIdle ==
    /\ cPc = "new"
    /\ cExpr = <<>>
    /\ cStack = <<>>
    /\ cResult = [status |-> "pending", term |-> <<>>, err |-> None]

\* no Space under test
SpaceIdle ==
    /\ sPc = "new"
    /\ sTrack = <<>>
    /\ sForm = None
    /\ sName = <<>>
    /\ sBack = <<>>

\* a Schema as its constructor leaves it
SchemaIdle ==
    /\ kTables = TableNames
    /\ kCache = {}
    /\ kCalls = 0
    /\ kLast = [kind |-> "none", table |-> None, alias |-> <<>>, name |-> None, label |-> <<>>]

\* no order expression is being compiled
OrderIdle ==
    /\ oPc = "new"
    /\ oSpace = <<>>
    /\ oExpr = <<>>
    /\ oStack = <<>>
    /\ oResult = <<>>

\* the link resolver, at rest on the example schema
LinkIdle ==
    /\ graph = ReadGraph
    /\ linkSrc = None
    /\ linkTgt = None
    /\ linkRes = Absent
    /\ linkCalls = 0

LinkInit ==
    /\ OrderIdle
    /\ SchemaIdle
    /\ SpaceIdle
    /\ CompileIdle
    /\ ViewIdle
    /\ QueryIdle
    /\ WriteIdle
    /\ ReadIdle
    /\ FanIdle
    /\ graph \in Graphs
    /\ linkSrc = None
    /\ linkTgt = None
    /\ linkRes = Absent
    /\ linkCalls = 0

\* one call of Schema.get_link(source_space, target_space)
CallGetLink ==
    \E s \in Units, t \in Units :
        /\ linkSrc' = s
        /\ linkTgt' = t
        /\ linkRes' \in (IF GetLink(graph, s, t) = {} THEN {Absent} ELSE GetLink(graph, s, t))
        /\ linkCalls' = 1  \* the machine keeps the last call only
        /\ UNCHANGED <<graph, notLink>>

LinkNext == CallGetLink

SpecLink == LinkInit /\ [][LinkNext]_vars

\* --------------------------------------------------- the query builder
\* the bucket names a request may start from ("zt" names no table)
RootNames == {"a", "c", "j", "zt"}
\* the names of nested buckets
NestedNames == {"b", "c", "d", "e", "a"}
\* the column names items and clauses use ("zz" is a column of no table)
ItemNames == {"x", "zz"}
\* the value rows an Item may carry
RowIds == {1, 2}
\* the values a Slice may carry
SliceValues == {0, 2}

Frame(space) == [space |-> space, fclause |-> <<>>, oclause |-> <<>>,
                 lim |-> NoVal, off |-> NoVal]

Top == qStack[Len(qStack)]
Pop(stack) == SubSeq(stack, 1, Len(stack) - 1)
SetTop(stack, f) == [stack EXCEPT ![Len(stack)] = f]

Walking == qPc = "walk" /\ qStack # <<>> /\ qWalked < MaxElems

\* Query.__call__(bucket): a fresh Query starts walking the bucket
QueryCall ==
    /\ qPc = "new"
    /\ \E r \in RootNames :
        /\ qRoot' = r
        /\ qStack' = <<Frame(<<r>>)>>
    /\ qPc' = "walk"
    /\ UNCHANGED <<qSelect, qJoins, qValues, qFilters, qOrders, qLimit, qOffset,
                   qResult, qSkipped, qDeferred, qWalked, notQuery>>

\* _process_bucket, a nested Bucket element: joined and walked when its link is
\* M2O, passed over otherwise
ProcessBucketElement ==
    /\ Walking
    /\ \E n \in NestedNames :
        LET space == Top.space
            espace == Append(space, n)
            links == GetLink(graph, Unit(Last(space)), Unit(n))
        IN  \E link \in (IF links = {} THEN {Absent} ELSE links) :
              IF link.kind = "M2O"
              THEN /\ Len(qStack) < MaxDepth
                   /\ qJoins' = Append(qJoins,
                         [source |-> space, target |-> espace,
                          on |-> <<GetColumn(space, link.source[2]),
                                   GetColumn(espace, link.target[2])>>])
                   /\ qStack' = Append(qStack, Frame(espace))
                   /\ UNCHANGED <<qSkipped, qDeferred>>
              ELSE /\ qSkipped' = IF link.kind = None THEN qSkipped \cup {espace} ELSE qSkipped
                   /\ qDeferred' = IF link.kind # None THEN qDeferred \cup {espace} ELSE qDeferred
                   /\ UNCHANGED <<qJoins, qStack>>
    /\ qWalked' = qWalked + 1
    /\ UNCHANGED <<qPc, qRoot, qSelect, qValues, qFilters, qOrders, qLimit, qOffset,
                   qResult, notQuery>>

\* _process_bucket, an Item naming a column
ProcessItemColumn ==
    /\ Walking
    /\ \E c \in ItemNames : qSelect' = Append(qSelect, GetColumn(Top.space, c))
    /\ qWalked' = qWalked + 1
    /\ UNCHANGED <<qPc, qRoot, qStack, qJoins, qValues, qFilters, qOrders, qLimit, qOffset,
                   qResult, qSkipped, qDeferred, notQuery>>

\* _process_bucket, an Item carrying a value map
ProcessItemRow ==
    /\ Walking
    /\ \E r \in RowIds : qValues' = Append(qValues, r)
    /\ qWalked' = qWalked + 1
    /\ UNCHANGED <<qPc, qRoot, qStack, qSelect, qJoins, qFilters, qOrders, qLimit, qOffset,
                   qResult, qSkipped, qDeferred, notQuery>>

\* _process_bucket, a Total marker
ProcessTotal ==
    /\ Walking
    /\ qSelect' = Append(qSelect, [space |-> <<>>, name |-> "_total"])
    /\ qWalked' = qWalked + 1
    /\ UNCHANGED <<qPc, qRoot, qStack, qJoins, qValues, qFilters, qOrders, qLimit, qOffset,
                   qResult, qSkipped, qDeferred, notQuery>>

\* _process_bucket, a Clause whose operation is a filter
ProcessFilterClause ==
    /\ Walking
    /\ \E c \in ItemNames :
        qStack' = SetTop(qStack, [Top EXCEPT !.fclause = Append(@, c)])
    /\ qWalked' = qWalked + 1
    /\ UNCHANGED <<qPc, qRoot, qSelect, qJoins, qValues, qFilters, qOrders, qLimit, qOffset,
                   qResult, qSkipped, qDeferred, notQuery>>

\* _process_bucket, a Clause whose operation is an ordering
ProcessOrderClause ==
    /\ Walking
    /\ \E c \in ItemNames :
        qStack' = SetTop(qStack, [Top EXCEPT !.oclause = Append(@, c)])
    /\ qWalked' = qWalked + 1
    /\ UNCHANGED <<qPc, qRoot, qSelect, qJoins, qValues, qFilters, qOrders, qLimit, qOffset,
                   qResult, qSkipped, qDeferred, notQuery>>

\* _process_bucket, a Slice: a limit or an offset
ProcessSlice ==
    /\ Walking
    /\ \E v \in SliceValues :
        \/ qStack' = SetTop(qStack, [Top EXCEPT !.lim = v])
        \/ qStack' = SetTop(qStack, [Top EXCEPT !.off = v])
    /\ qWalked' = qWalked + 1
    /\ UNCHANGED <<qPc, qRoot, qSelect, qJoins, qValues, qFilters, qOrders, qLimit, qOffset,
                   qResult, qSkipped, qDeferred, notQuery>>

\* FilterCompiler at one bucket: every clause resolves its column in the bucket's
\* space (_get_column raises ValueError on None); the clauses are conjoined
FilterResolves(space, fclause) ==
    \A i \in 1..Len(fclause) : GetColumn(space, fclause[i]) # NoColumn
CompileFilter(space, fclause) ==
    [i \in 1..Len(fclause) |-> GetColumn(space, fclause[i])]

\* OrderCompiler at one bucket: one sort key per clause, the column unchecked
CompileOrder(space, oclause) ==
    [i \in 1..Len(oclause) |-> GetColumn(space, oclause[i])]

\* the end of one _process_bucket call: the bucket's filter and order clauses are
\* compiled and attached, then its limit and offset
EndBucket ==
    /\ qPc = "walk"
    /\ qStack # <<>>
    /\ LET f == Top
       IN  IF f.fclause # <<>> /\ ~FilterResolves(f.space, f.fclause)
           THEN /\ qPc' = "failed"
                /\ qResult' = Raised("ValueError: column not found")
                /\ qStack' = <<>>
                /\ UNCHANGED <<qFilters, qOrders, qLimit, qOffset>>
           ELSE /\ qFilters' = IF f.fclause # <<>>
                               THEN Append(qFilters, CompileFilter(f.space, f.fclause))
                               ELSE qFilters
                /\ qOrders' = qOrders \o CompileOrder(f.space, f.oclause)
                /\ qLimit' = IF Truthy(f.lim) THEN f.lim ELSE qLimit
                /\ qOffset' = IF Truthy(f.off) THEN f.off ELSE qOffset
                /\ qStack' = Pop(qStack)
                /\ qPc' = IF Len(qStack) = 1 THEN "build" ELSE "walk"
                /\ UNCHANGED qResult
    /\ UNCHANGED <<qRoot, qSelect, qJoins, qValues, qSkipped, qDeferred, qWalked, notQuery>>

\* a mutant: value rows are looked at before the selected columns
StatementKindValuesFirst(sel, vals, fil) ==
    IF vals # <<>> THEN (IF fil # <<>> THEN "update" ELSE "insert")
    ELSE IF sel # <<>> THEN "select"
    ELSE IF fil # <<>> THEN "delete"
    ELSE "undetermined"

\* _build_query: the statement kind, from the three lists the walk filled
StatementKind(sel, vals, fil) ==
    IF sel # <<>> THEN "select"
    ELSE IF vals # <<>> THEN (IF fil # <<>> THEN "update" ELSE "insert")
    ELSE IF fil # <<>> THEN "delete"
    ELSE "undetermined"

\* _build_query. sqlalchemy.select refuses a None column; insert, update and
\* delete statements have no join_from, order_by, limit or offset
BuildPlan(root, sel, joins, vals, fil, ord, lim, off) ==
    LET kind == StatementKind(sel, vals, fil)
    IN  IF kind = "select"
        THEN IF \E i \in 1..Len(sel) : sel[i] = NoColumn
             THEN Raised("ArgumentError: column expected, got None")
             ELSE Plan("select", sel, joins, <<>>, fil, ord,
                       IF Truthy(lim) THEN lim ELSE NoVal,
                       IF Truthy(off) THEN off ELSE NoVal)
        ELSE IF ~HasTable(<<root>>)
        THEN Raised("ValueError: table not found")
        ELSE IF kind = "undetermined"
        THEN Raised("ValueError: cannot determine operation type")
        ELSE IF joins # <<>> \/ ord # <<>> \/ Truthy(lim) \/ Truthy(off)
        THEN Raised("AttributeError")
        ELSE Plan(kind, <<>>, <<>>,
                  IF kind = "update" THEN <<vals[1]>> ELSE vals,
                  fil, <<>>, NoVal, NoVal)

\* Query._build_query(bucket), after the walk has returned
BuildQuery ==
    /\ qPc = "build"
    /\ qResult' = BuildPlan(qRoot, qSelect, qJoins, qValues, qFilters, qOrders, qLimit, qOffset)
    /\ qPc' = "done"
    /\ UNCHANGED <<qRoot, qStack, qSelect, qJoins, qValues, qFilters, qOrders, qLimit,
                   qOffset, qSkipped, qDeferred, qWalked, notQuery>>

QueryInit == LinkIdle /\ QueryIdle /\ WriteIdle /\ ReadIdle /\ FanIdle /\ ViewIdle /\ CompileIdle /\ SpaceIdle /\ SchemaIdle /\ OrderIdle

QueryNext ==
    \/ QueryCall
    \/ ProcessBucketElement
    \/ ProcessItemColumn
    \/ ProcessItemRow
    \/ ProcessTotal
    \/ ProcessFilterClause
    \/ ProcessOrderClause
    \/ ProcessSlice
    \/ EndBucket
    \/ BuildQuery

SpecQuery == QueryInit /\ [][QueryNext]_vars

\* ------------------------------------------------- the write clients
\* the elements of an invoice: rows, filter clauses, upsert markers (each with its
\* own clause) and markers of another kind
RowElems == {[t |-> "row", v |-> r] : r \in {"r1", "r2"}}
ClauseElems == {[t |-> "clause", v |-> c] : c \in {"f1", "f2"}}
UpsertElems == {[t |-> "upsert", v |-> c] : c \in {"u1", "u2"}}
OtherElems == {[t |-> "meta", v |-> "other"]}
InvoiceElems == RowElems \cup ClauseElems \cup UpsertElems \cup OtherElems
Invoices == UNION {[1..k -> InvoiceElems] : k \in 0..MaxInvoice}

\* the connections an executor can be constructed with
Connections == {1, 2}

IsRow(e) == e.t = "row"
IsClause(e) == e.t = "clause"
IsBeacon(e) == e.t \in {"upsert", "meta"}
IsUpsert(e) == e.t = "upsert"
Values(seq) == [i \in 1..Len(seq) |-> seq[i].v]

\* invoice_separator: (data, clause, beacons); <<>> stands for None
SepData(inv) == Values(SelectSeq(inv, IsRow))
SepClause(inv) == Values(SelectSeq(inv, IsClause))
SepBeacons(inv) == SelectSeq(inv, IsBeacon)

\* a statement handed to a connection
Stmt(kind, rows, clause, conn, phase) ==
    [kind |-> kind, rows |-> rows, clause |-> clause, conn |-> conn, phase |-> phase]

\* UpsertPlugin.__call__: the delete it executes, from the clause of the first
\* upsert beacon of the invoice, on its executor's connection
UpsertDelete(inv, conn) ==
    Stmt("delete", <<>>, <<SelectSeq(inv, IsUpsert)[1].v>>, conn, "plugin")

\* UpsertPlugin.__call__: the invoice it returns, the clauses removed
UpsertInvoice(inv) == SelectSeq(inv, LAMBDA e : ~IsClause(e))

\* WriteClient.__init__: the plugins are constructed with the client's executor
PluginConnection(conn) == conn

\* WriteClient._apply_plugins: the beacons whose type has a registered plugin
HandledBeacons(inv, registered) ==
    IF registered THEN SelectSeq(SepBeacons(inv), IsUpsert) ELSE <<>>

\* WriteClient._apply_plugins: the statements the plugins execute, one call per
\* handled beacon, and the invoice the last plugin returned
PluginStatements(inv, registered, conn) ==
    [i \in 1..Len(HandledBeacons(inv, registered)) |-> UpsertDelete(inv, PluginConnection(conn))]
PluginInvoice(inv, registered) ==
    IF HandledBeacons(inv, registered) = <<>> THEN inv ELSE UpsertInvoice(inv)

\* a mutant: the update branch writes the first row only
RegularStatementsFirstRow(data, clause, conn) ==
    IF data = <<>> /\ clause # <<>>
    THEN <<Stmt("delete", <<>>, clause, conn, "regular")>>
    ELSE IF data # <<>> /\ clause = <<>>
    THEN <<Stmt("insert", data, <<>>, conn, "regular")>>
    ELSE IF data # <<>> /\ clause # <<>>
    THEN <<Stmt("update", <<data[1]>>, clause, conn, "regular")>>
    ELSE <<>>

\* storing.WriteClient.__call__, lines 112-118: the statements of the regular write
RegularStatements(data, clause, conn) ==
    IF data = <<>> /\ clause # <<>>
    THEN <<Stmt("delete", <<>>, clause, conn, "regular")>>
    ELSE IF data # <<>> /\ clause = <<>>
    THEN <<Stmt("insert", data, <<>>, conn, "regular")>>
    ELSE IF data # <<>> /\ clause # <<>>
    THEN [i \in 1..Len(data) |-> Stmt("update", <<data[i]>>, clause, conn, "regular")]
    ELSE <<>>

\* storing.WriteClient.__call__, up to the first await: the invoice is separated
\* and the plugins of its beacons are about to run
WriteClientCall ==
    /\ wPc = "new"
    /\ wClient = "storing"
    /\ wPending' = PluginStatements(wInvoice, wRegistered, wConn)
    /\ wPc' = "plugins"
    /\ UNCHANGED <<wClient, wRegistered, wInvoice, wResolved, wConn, wLog, notWrite>>

\* storing.WriteClient.__call__, after _apply_plugins returned: the resolved
\* invoice is separated again and classified
WriteClientClassify ==
    /\ wPc = "plugins"
    /\ wClient = "storing"
    /\ wPending = <<>>
    /\ wResolved' = PluginInvoice(wInvoice, wRegistered)
    /\ wPending' = RegularStatements(SepData(wResolved'), SepClause(wResolved'), wConn)
    /\ wPc' = "regular"
    /\ UNCHANGED <<wClient, wRegistered, wInvoice, wConn, wLog, notWrite>>

\* typing.cast(typ, val) returns val
Cast(typ, val) == val

\* write.WriteExecutor._search_meta(bucket, Upsert)
SearchMeta(inv) ==
    IF SelectSeq(inv, IsUpsert) = <<>> THEN None ELSE SelectSeq(inv, IsUpsert)[1].v

\* write.WriteExecutor._apply_upsert, line 34: the value bound to `upsert`; the
\* arguments of typing.cast are the found element and the class Upsert, in that order
UpsertBound(inv) == Cast(SearchMeta(inv), "class Upsert")

\* write.WriteExecutor._process_bucket: the statement the builder makes of the bucket
BucketStatement(inv, conn) ==
    LET plan == BuildPlan("a", <<>>, <<>>, SepData(inv),
                          IF SepClause(inv) = <<>> THEN <<>> ELSE <<SepClause(inv)>>,
                          <<>>, NoVal, NoVal)
    IN  IF plan.status = "plan"
        THEN <<Stmt(plan.kind, plan.values, SepClause(inv), conn, "regular")>>
        ELSE <<>>

\* write.WriteExecutor.__call__, up to the first await. `upsert` is the class
\* Upsert whatever the bucket holds, so the branch is always taken, and the class
\* has no attribute `clause` to build the delete from: the call raises
WriteExecutorCall ==
    /\ wPc = "new"
    /\ wClient = "write"
    /\ IF UpsertBound(wInvoice) = None
       THEN /\ wPending' = BucketStatement(wInvoice, wConn)
            /\ wPc' = "regular"
       ELSE IF UpsertBound(wInvoice) = "class Upsert"
       THEN /\ wPending' = <<>>
            /\ wPc' = "failed"
       ELSE /\ wPending' = <<Stmt("delete", <<>>, <<UpsertBound(wInvoice)>>, wConn, "plugin")>>
                           \o BucketStatement(wInvoice, wConn)
            /\ wPc' = "regular"
    /\ UNCHANGED <<wClient, wRegistered, wInvoice, wResolved, wConn, wLog, notWrite>>

\* await connection.execute(statement): the statement is handed over and the call
\* returns, or raises and ends the request
ConnectionExecute ==
    /\ wPc \in {"plugins", "regular"}
    /\ wPending # <<>>
    /\ \E ok \in BOOLEAN :
        /\ wLog' = Append(wLog, [stmt |-> Head(wPending), ok |-> ok])
        /\ wPending' = IF ok THEN Tail(wPending) ELSE <<>>
        /\ wPc' = IF ok THEN wPc ELSE "failed"
    /\ UNCHANGED <<wClient, wRegistered, wInvoice, wResolved, wConn, notWrite>>

\* the write returns to its caller
WriteReturn ==
    /\ wPc = "regular"
    /\ wPending = <<>>
    /\ wPc' = "done"
    /\ UNCHANGED <<wClient, wRegistered, wInvoice, wResolved, wConn, wPending, wLog, notWrite>>

WriteInit ==
    /\ OrderIdle
    /\ SchemaIdle
    /\ SpaceIdle
    /\ CompileIdle
    /\ ViewIdle
    /\ LinkIdle
    /\ QueryIdle
    /\ ReadIdle
    /\ FanIdle
    /\ wClient \in {"storing", "write"}
    /\ wRegistered \in BOOLEAN
    /\ wInvoice \in Invoices
    /\ wResolved = <<>>
    /\ wConn \in Connections
    /\ wPc = "new"
    /\ wPending = <<>>
    /\ wLog = <<>>

WriteNext ==
    \/ WriteClientCall
    \/ WriteClientClassify
    \/ WriteExecutorCall
    \/ ConnectionExecute
    \/ WriteReturn

SpecWrite == WriteInit /\ [][WriteNext]_vars

\* ---------------------------------------------------- the read executor
\* the tables a read request may start from
ReadRoots == {"a", "c"}
\* the names of the nested buckets of a read request
KidNames == {"b", "c", "d", "g"}
\* the nested buckets of one bucket: distinct names, in any order
KidSeqs == {q \in UNION {[1..k -> KidNames] : k \in 0..MaxKids} :
              \A i, j \in 1..Len(q) : i # j => q[i] # q[j]}
\* the values of a key column
KeyValues == {1, 2}
\* what a statement can return: the key value of each row. The key is the column
\* a foreign key references, so the rows of one result have distinct keys
RowSeqs == {q \in UNION {[1..k -> KeyValues] : k \in 0..MaxRows} :
              \A i, j \in 1..Len(q) : i # j => q[i] # q[j]}

\* the link get_link returns (the example schema has at most one per pair)
LinkOf(g, s, t) ==
    LET links == GetLink(g, Unit(s), Unit(t))
    IN  IF links = {} THEN Absent ELSE CHOOSE l \in links : TRUE

\* the nested buckets of a bucket, each with the link get_link returns for it
Linked(g, table, kids) ==
    [i \in 1..Len(kids) |-> [name |-> kids[i], link |-> LinkOf(g, table, kids[i])]]

\* a mutant: many-to-many children are not deferred
DeferredO2MOnly(linked) ==
    SelectSeq(linked, LAMBDA d : d.link.kind = "O2M")

\* ReadExecutor.__call__, lines 93-104: nested_buckets, the nested buckets whose
\* link is O2M or M2M, in bucket order
Deferred(linked) ==
    SelectSeq(linked, LAMBDA d : d.link.kind = "O2M" \/ d.link.kind = "M2M")

\* the nested buckets the builder joins into the bucket's own statement
Joined(linked) ==
    LET js == SelectSeq(linked, LAMBDA d : d.link.kind = "M2O")
    IN  [i \in 1..Len(js) |-> js[i].name]

\* a mutant: the membership filter holds the key of the first parent row only
ChildFilterFirstRow(rows) == IF rows = <<>> THEN {} ELSE {rows[1]}

\* lines 119 and 138: SET(*(e[link.source_address.name] for e in bucket_data))
ChildFilter(rows) == {rows[i] : i \in 1..Len(rows)}

NoFilter == [has |-> FALSE, vals |-> {}]

\* lines 106-107: the statement the builder makes of the bucket: its own item,
\* the key items added for the deferred children, a join per M2O child, the filter
ReadPlan(table, item, linked, filter) ==
    LET deferred == Deferred(linked)
    IN  BuildPlan(table,
                  <<GetColumn(<<table>>, item)>> \o
                      [i \in 1..Len(deferred) |->
                          GetColumn(<<table>>, deferred[i].link.source[2])],
                  Joined(linked),
                  <<>>,
                  IF filter.has THEN <<filter.vals>> ELSE <<>>,
                  <<>>, NoVal, NoVal)

\* ReadExecutor.__call__ from its first line to `await self._connection.execute`:
\* the coroutine's frame and the statement it hands to the connection
ReadFrame(table, linked, nested, stmt) ==
    [table |-> table, nested |-> nested, deferred |-> Deferred(linked),
     next |-> 1, rows |-> <<>>, stmt |-> stmt, waiting |-> TRUE]
ReadStmt(table, linked, filter, parent, depth) ==
    [table |-> table, joined |-> Joined(linked),
     nDeferred |-> Len(Deferred(linked)), filter |-> filter,
     parent |-> parent, depth |-> depth, returned |-> FALSE, retAt |-> 0, keys |-> {}]

\* ReadExecutor.__call__(bucket) on a top-level bucket, up to its first await
ReadCall ==
    /\ rPc = "new"
    /\ \E table \in ReadRoots, kids \in KidSeqs, item \in ItemNames :
        LET linked == Linked(graph, table, kids)
        IN  /\ rRoot' = [table |-> table, kids |-> kids]
            /\ IF ReadPlan(table, item, linked, NoFilter).status = "error"
               THEN /\ rPc' = "failed"
                    /\ UNCHANGED <<rStack, rLog>>
               ELSE /\ rPc' = "run"
                    /\ rStack' = <<ReadFrame(table, linked, FALSE, 1)>>
                    /\ rLog' = <<ReadStmt(table, linked, NoFilter, 0, 1)>>
    /\ UNCHANGED <<linkVars, notRead>>

RTop == rStack[Len(rStack)]

\* connection.execute returns the rows of the statement in flight, or raises,
\* which ends the read
ReadConnectionReturn ==
    /\ rPc = "run"
    /\ rStack # <<>>
    /\ RTop.waiting
    /\ \/ \E rows \in RowSeqs :
            /\ rStack' = [rStack EXCEPT ![Len(rStack)] =
                             [@ EXCEPT !.rows = rows, !.waiting = FALSE]]
            /\ rLog' = [rLog EXCEPT ![RTop.stmt] =
                           [@ EXCEPT !.returned = TRUE, !.retAt = Len(rLog),
                                     !.keys = {rows[i] : i \in 1..Len(rows)}]]
            /\ UNCHANGED rPc
       \/ /\ rPc' = "failed"
          /\ rStack' = <<>>
          /\ UNCHANGED rLog
    /\ UNCHANGED <<rRoot, linkVars, notRead>>

\* the call of the executor on a child bucket, up to the child's first await
ReadEnterChild(table, kids, item, filter) ==
    LET linked == Linked(graph, table, kids)
    IN  IF ReadPlan(table, item, linked, filter).status = "error"
        THEN /\ rPc' = "failed"
             /\ rStack' = <<>>
             /\ UNCHANGED rLog
        ELSE /\ rStack' = Append(rStack, ReadFrame(table, linked, TRUE, Len(rLog) + 1))
             /\ rLog' = Append(rLog, ReadStmt(table, linked, filter, RTop.stmt, Len(rStack) + 1))
             /\ UNCHANGED rPc

\* lines 113-121 and 131-142: the next deferred child is given its membership
\* filter and the executor calls itself on it: on the nested bucket for O2M, on a
\* bucket of the interim table that nests it for M2M
ReadChildCall ==
    /\ rPc = "run"
    /\ rStack # <<>>
    /\ ~RTop.waiting
    /\ RTop.next <= Len(RTop.deferred)
    /\ Len(rStack) < MaxReadDepth
    /\ LET child == RTop.deferred[RTop.next]
           filter == [has |-> TRUE, vals |-> ChildFilter(RTop.rows)]
       IN  IF child.link.kind = "M2M"
           THEN ReadEnterChild(child.link.interim[1], <<child.name>>,
                               child.link.interim[2], filter)
           ELSE \E kids \in KidSeqs, item \in ItemNames :
                    ReadEnterChild(child.name, kids, item, filter)
    /\ UNCHANGED <<rRoot, linkVars, notRead>>

\* lines 153-168: every deferred child has returned its view; the rows are
\* assembled and the view goes back to the caller
ReadReturn ==
    /\ rPc = "run"
    /\ rStack # <<>>
    /\ ~RTop.waiting
    /\ RTop.next > Len(RTop.deferred)
    /\ IF Len(rStack) = 1
       THEN /\ rPc' = "done"
            /\ rStack' = <<>>
       ELSE /\ rStack' = [Pop(rStack) EXCEPT ![Len(rStack) - 1] = [@ EXCEPT !.next = @ + 1]]
            /\ UNCHANGED rPc
    /\ UNCHANGED <<rLog, rRoot, linkVars, notRead>>

ReadInit ==
    /\ OrderIdle
    /\ SchemaIdle
    /\ SpaceIdle
    /\ CompileIdle
    /\ ViewIdle
    /\ LinkIdle
    /\ QueryIdle
    /\ WriteIdle
    /\ FanIdle
    /\ rPc = "new"
    /\ rStack = <<>>
    /\ rLog = <<>>
    /\ rRoot = [table |-> None, kids |-> <<>>]

ReadNext ==
    \/ ReadCall
    \/ ReadConnectionReturn
    \/ ReadChildCall
    \/ ReadReturn

SpecRead == ReadInit /\ [][ReadNext]_vars

\* ------------------------------------------------ the clients' fan-out
\* a task that has ended: its coroutine returned, raised, or was cancelled
Terminated == {"finished", "failed", "cancelled"}

\* tg.create_task(self._executor(bucket)): a task that has not run yet
NewTask == [state |-> "created", issued |-> 0, cancel |-> FALSE, reaped |-> FALSE]

\* the tasks the TaskGroup still holds in _tasks
GroupTasks(tasks) == {t \in 1..Len(tasks) : ~tasks[t].reaped}

\* a mutant: the group's exit raises at the first error, without waiting
TaskGroupExitOnFirstError(group, errors) ==
    IF errors # {} THEN "raise"
    ELSE IF group # {} THEN "wait"
    ELSE "return"

\* the end of `async with asyncio.TaskGroup()`: the exit waits while the group
\* holds a task, then raises the collected errors or falls through
TaskGroupExit(group, errors) ==
    IF group # {} THEN "wait"
    ELSE IF errors # {} THEN "raise"
    ELSE "return"

\* ReadClient.__call__ / WriteClient.__call__, up to the exit of the TaskGroup:
\* one task per bucket of the invoice, created before any of them runs
FanCall ==
    /\ fPc = "new"
    /\ \E n \in 0..MaxBuckets :
        /\ fBuckets' = n
        /\ fTasks' = [i \in 1..n |-> NewTask]
    /\ fPc' = "joining"
    /\ UNCHANGED <<fKind, fConn, fAborting, fErrors, fInFlight, notFan>>

\* the task's coroutine reaches `await self._connection.execute(...)` of the one
\* executor the client owns
HandStatement(t) ==
    /\ fTasks' = [fTasks EXCEPT ![t] =
                     [@ EXCEPT !.state = "inflight", !.issued = @ + 1]]
    /\ fInFlight' = fInFlight \cup {[task |-> t, conn |-> fConn]}

\* the task's coroutine ends: it returned, raised, or took the CancelledError
EndTask(t, state) ==
    /\ fTasks' = [fTasks EXCEPT ![t] = [@ EXCEPT !.state = state]]
    /\ fInFlight' = fInFlight \ {[task |-> t, conn |-> fConn]}

\* the event loop runs a created task up to its first await: the read executor
\* builds the bucket's statement (or the builder raises) and executes it; the
\* write executor starts with _apply_upsert
TaskStart(t) ==
    /\ fTasks[t].state = "created"
    /\ ~fTasks[t].cancel
    /\ IF fKind = "read"
       THEN \E built \in BOOLEAN :
                IF built THEN HandStatement(t) ELSE EndTask(t, "failed")
       ELSE \E inv \in Invoices :
                IF UpsertBound(inv) = "class Upsert"
                THEN EndTask(t, "failed")
                ELSE HandStatement(t)
    /\ UNCHANGED <<fPc, fKind, fConn, fBuckets, fAborting, fErrors, notFan>>

\* the execute call of a task returns or raises; after a return the coroutine runs
\* on to its next execute (a child bucket's statement, the regular write after an
\* upsert's delete) or to its end
TaskConnectionReturn(t) ==
    /\ fTasks[t].state = "inflight"
    /\ ~fTasks[t].cancel
    /\ \/ EndTask(t, "failed")
       \/ EndTask(t, "finished")
       \/ /\ fTasks[t].issued < MaxTaskStmts
          /\ HandStatement(t)
    /\ UNCHANGED <<fPc, fKind, fConn, fBuckets, fAborting, fErrors, notFan>>

\* a task whose cancellation was requested gets CancelledError at its await, or
\* before its first step; the executors do not catch it
TaskCancelled(t) ==
    /\ fTasks[t].state \in {"created", "inflight"}
    /\ fTasks[t].cancel
    /\ EndTask(t, "cancelled")
    /\ UNCHANGED <<fPc, fKind, fConn, fBuckets, fAborting, fErrors, notFan>>

\* the TaskGroup's done callback of a task: the task leaves _tasks; the first
\* exception aborts the group, which requests the cancellation of every task that
\* has not ended
OnTaskDone(t) ==
    /\ fTasks[t].state \in Terminated
    /\ ~fTasks[t].reaped
    /\ LET failed == fTasks[t].state = "failed"
           abort == failed /\ ~fAborting
       IN  /\ fErrors' = IF failed THEN fErrors \cup {t} ELSE fErrors
           /\ fAborting' = (fAborting \/ failed)
           /\ fTasks' = [u \in 1..Len(fTasks) |->
                           IF u = t THEN [fTasks[u] EXCEPT !.reaped = TRUE]
                           ELSE IF abort /\ fTasks[u].state \notin Terminated
                           THEN [fTasks[u] EXCEPT !.cancel = TRUE]
                           ELSE fTasks[u]]
    /\ UNCHANGED <<fPc, fKind, fConn, fBuckets, fInFlight, notFan>>

\* the exit of the TaskGroup ends and the client returns or raises. ReadClient
\* returns the list of results, or result[0] of a list of one: of an empty list
\* that is an IndexError
FanExit ==
    /\ fPc = "joining"
    /\ TaskGroupExit(GroupTasks(fTasks), fErrors) # "wait"
    /\ fPc' = IF TaskGroupExit(GroupTasks(fTasks), fErrors) = "raise" THEN "raised"
              ELSE IF fKind = "read" /\ Len(fTasks) = 0 THEN "raised"
              ELSE "returned"
    /\ UNCHANGED <<fKind, fConn, fBuckets, fTasks, fAborting, fErrors, fInFlight, notFan>>

FanInit ==
    /\ OrderIdle
    /\ SchemaIdle
    /\ SpaceIdle
    /\ CompileIdle
    /\ ViewIdle
    /\ LinkIdle
    /\ QueryIdle
    /\ WriteIdle
    /\ ReadIdle
    /\ fPc = "new"
    /\ fKind \in {"read", "write"}
    /\ fConn \in Connections
    /\ fBuckets = 0
    /\ fTasks = <<>>
    /\ fAborting = FALSE
    /\ fErrors = {}
    /\ fInFlight = {}

FanNext ==
    \/ FanCall
    \/ \E t \in 1..Len(fTasks) : TaskStart(t)
    \/ \E t \in 1..Len(fTasks) : TaskConnectionReturn(t)
    \/ \E t \in 1..Len(fTasks) : TaskCancelled(t)
    \/ \E t \in 1..Len(fTasks) : OnTaskDone(t)
    \/ FanExit

SpecFan == FanInit /\ [][FanNext]_vars

\* --------------------------------------------- the read executor's view
\* a column label is held as the sequence of its '__'-separated parts: 'b__c__y'
\* is <<"b", "c", "y">>
KeyLabel == <<"id">>
\* TOTAL_QUERY_FIELD
TotalLabel == <<"_total">>
Labels == {KeyLabel, <<"b", "x">>, <<"b", "c", "y">>, TotalLabel}
\* the select lists of a statement whose bucket has the key item
SelectLists == {S \in SUBSET Labels : KeyLabel \in S}
\* the rows a statement with these labels can return; NoVal is a null
RowsOf(S) ==
    {r \in [S -> KeyValues \cup {NoVal}] :
        \A l \in S : (l \in {KeyLabel, TotalLabel}) => r[l] # NoVal}

\* dict(row): one key per label
Flat(row) == {[path |-> <<l>>, val |-> row[l]] : l \in DOMAIN row}

\* Squeezer._split_rec: the key is split at the separator, one level per part
SplitRec(l) == [i \in 1..Len(l) |-> <<l[i]>>]

\* Squeezer._nestify of a row: a nested mapping, held as its leaves with their paths
Nestify(row) == {[path |-> SplitRec(l), val |-> row[l]] : l \in DOMAIN row}

IsPrefix(p, q) == Len(p) < Len(q) /\ SubSeq(q, 1, Len(p)) = p
\* the value at a path of a nested mapping is itself a mapping
IsMapping(T, p) == \E f \in T : IsPrefix(p, f.path)
\* v.keys() of the mapping at a path
KeysAt(T, p) == {f.path[Len(p) + 1] : f \in {g \in T : IsPrefix(p, g.path)}}
ValueAt(T, p) == (CHOOSE f \in T : f.path = p).val
\* any(_ is not None for _ in v.values()): a mapping among the values is not None
AnyNotNone(T, p) ==
    \E k \in KeysAt(T, p) :
        IsMapping(T, Append(p, k)) \/ ValueAt(T, Append(p, k)) # NoVal

\* Squeezer._collapse_none of the mapping at a path
RECURSIVE CollapseNone(_, _)
CollapseNone(T, p) ==
    UNION { IF IsMapping(T, Append(p, k))
            THEN IF AnyNotNone(T, Append(p, k))
                 THEN CollapseNone(T, Append(p, k))
                 ELSE {[path |-> Append(p, k), val |-> NoVal]}
            ELSE {[path |-> Append(p, k), val |-> ValueAt(T, Append(p, k))]}
          : k \in KeysAt(T, p) }

\* Squeezer.__call__
Squeeze(row) == CollapseNone(Nestify(row), <<>>)

\* row.get(key) of an assembled row
Get(fields, key) ==
    IF \E f \in fields : f.path = <<key>>
    THEN (CHOOSE f \in fields : f.path = <<key>>).val
    ELSE NoVal

\* the rows of the child's view: the key of each and its place in the result
ChildKeySeqs == UNION {[1..k -> KeyValues] : k \in 0..MaxRows}
ChildRows(keys) == [i \in 1..Len(keys) |-> [key |-> keys[i], n |-> i]]

\* the transformer of the index: a child row without its key column
Transformed(rows) == [i \in 1..Len(rows) |-> rows[i].n]

\* a mutant: a later child row replaces the earlier one of the same key
IndexDataLastOnly(data) ==
    [k \in {data[i].key : i \in 1..Len(data)} |->
        LET same == SelectSeq(data, LAMBDA r : r.key = k)
        IN  Transformed(<<same[Len(same)]>>)]

\* ReadExecutor._index_data: the child rows of each key, in the order returned
IndexData(data) ==
    [k \in {data[i].key : i \in 1..Len(data)} |->
        Transformed(SelectSeq(data, LAMBDA r : r.key = k))]

\* v.get(key, [])
IndexGet(index, k) == IF k \in DOMAIN index THEN index[k] ELSE <<>>

\* ReadExecutor.__call__ up to line 151: the bucket's statement has its labels,
\* and the view of the deferred child, if there is one, has been indexed by key
ViewCall ==
    /\ vPc = "new"
    /\ \E nested \in BOOLEAN, S \in SelectLists, hasChild \in BOOLEAN, keys \in ChildKeySeqs :
        /\ hasChild \/ keys = <<>>
        /\ vNested' = nested
        /\ vLabels' = S
        /\ vChild' = keys
        /\ vIndex' = IF hasChild
                     THEN <<[name |-> "kid", key |-> KeyLabel,
                             index |-> IndexData(ChildRows(keys))]>>
                     ELSE <<>>
    /\ vPc' = "rows"
    /\ UNCHANGED <<vRows, vData, vMeta, notView>>

\* lines 155-166, one turn of the loop: the next row of bucket_data is squeezed
\* (or copied as it is in a nested call that has indexed children), loses its
\* total field, which the first such row gives to meta, and gets a list per
\* indexed child
ViewRow ==
    /\ vPc = "rows"
    /\ Len(vRows) < MaxRows
    /\ \E row \in RowsOf(vLabels) :
        \* the key is the column a foreign key references: no two rows share it
        /\ \A i \in 1..Len(vRows) : vRows[i][KeyLabel] # row[KeyLabel]
        \* count(*) over () is the same in every row of one result
        /\ (TotalLabel \in vLabels /\ vRows # <<>>) => row[TotalLabel] = vRows[1][TotalLabel]
        /\ LET plain == vNested /\ vIndex # <<>>
               squeezed == IF plain THEN Flat(row) ELSE Squeeze(row)
               hasTotal == ~plain /\ \E f \in squeezed : f.path = <<TotalLabel>>
               fields == IF hasTotal
                         THEN {f \in squeezed : f.path # <<TotalLabel>>}
                         ELSE squeezed
               lists == {[name |-> vIndex[j].name,
                          rows |-> IndexGet(vIndex[j].index, Get(fields, vIndex[j].key))]
                         : j \in 1..Len(vIndex)}
           IN  /\ vRows' = Append(vRows, row)
               /\ vData' = Append(vData, [fields |-> fields, lists |-> lists])
               /\ vMeta' = IF hasTotal /\ ~vMeta.has
                           THEN [has |-> TRUE, total |-> Get(squeezed, TotalLabel)]
                           ELSE vMeta
    /\ UNCHANGED <<vPc, vNested, vLabels, vChild, vIndex, notView>>

\* line 168: bucket_data is exhausted and View(data=data, meta=meta) is returned
ViewReturn ==
    /\ vPc = "rows"
    /\ vPc' = "done"
    /\ UNCHANGED <<vNested, vLabels, vChild, vIndex, vRows, vData, vMeta, notView>>

ViewInit ==
    /\ OrderIdle
    /\ SchemaIdle
    /\ SpaceIdle
    /\ CompileIdle
    /\ LinkIdle
    /\ QueryIdle
    /\ WriteIdle
    /\ ReadIdle
    /\ FanIdle
    /\ ViewIdle

ViewNext ==
    \/ ViewCall
    \/ ViewRow
    \/ ViewReturn

SpecView == ViewInit /\ [][ViewNext]_vars

\* ------------------------------------------------- the filter compiler
\* an element of a filter expression: the AND or OR marker, or a clause with its
\* column name and operation. An operation has its class, for NOT the class of the
\* operation it wraps, and up to two values: the value of a simple operation; the
\* value and the case_sensitive flag of LIKE; the lower and upper bound of RANGE
Element(kind, name, op, inner, a, b) ==
    [kind |-> kind, name |-> name, op |-> op, inner |-> inner, a |-> a, b |-> b]
AndMark == Element("AND", None, None, None, NoVal, NoVal)
OrMark == Element("OR", None, None, None, NoVal, NoVal)
Cl(name, op, inner, a, b) == Element("clause", name, op, inner, a, b)

SimpleOps == {"EQ", "NE", "GE", "LE"}
FilterElements ==
    {AndMark, OrMark}
    \cup {Cl(n, "EQ", None, 1, NoVal) : n \in {"x", "zz"}}
    \cup {Cl("x", "IS", None, NoVal, NoVal), Cl("x", "SET", None, 1, NoVal)}
    \cup {Cl("x", "LIKE", None, 1, cs) : cs \in {0, 1}}
    \cup {Cl("x", "NOT", inner, 1, NoVal) : inner \in {"IS", "EQ", "LIKE", "SET", "NE"}}
    \cup {Cl("x", "RANGE", None, lo, hi) : lo \in {NoVal, 1}, hi \in {NoVal, 2}}

\* the space the compiler instance was made for
FilterSpace == <<"a">>

\* a compiled predicate is held in prefix form, as a sequence of tokens: a
\* combinator followed by its operands, or one comparison of a column
Tok(form, col, val) == [form |-> form, col |-> col, val |-> val]
Compiled(term) == [ok |-> TRUE, term |-> term, err |-> None]
Failed(e) == [ok |-> FALSE, term |-> <<>>, err |-> e]

\* FilterCompiler._get_column followed by the column method or operator given
OnColumn(form, name, val) ==
    IF GetColumn(FilterSpace, name) = NoColumn
    THEN Failed("ValueError: column not found")
    ELSE Compiled(<<Tok(form, name, val)>>)

\* FilterCompiler._simple_clause
SimpleClause(el) ==
    OnColumn(CASE el.op = "EQ" -> "eq" [] el.op = "NE" -> "ne"
               [] el.op = "GE" -> "ge" [] OTHER -> "le",
             el.name, el.a)

\* FilterCompiler._like_clause
LikeClause(el, inversion) ==
    IF el.b = 1
    THEN OnColumn(IF inversion THEN "notlike" ELSE "like", el.name, el.a)
    ELSE OnColumn(IF inversion THEN "notilike" ELSE "ilike", el.name, el.a)

\* FilterCompiler._set_clause
SetClause(el, inversion) ==
    OnColumn(IF inversion THEN "notin" ELSE "in", el.name, el.a)

\* FilterCompiler._logic_clause: the operator is called with one argument, a
\* generator; and_ and or_ take clause elements and reject it
LogicClause(form, params) == Failed("ArgumentError: SQL expression element expected")

\* FilterCompiler._range_clause: a clause per bound that is not None; two go to
\* _logic_clause, one is returned as the Clause it is, none returns None
RangeClause(el) ==
    LET params == SelectSeq(<<Cl(el.name, "GE", None, el.a, NoVal),
                              Cl(el.name, "LE", None, el.b, NoVal)>>,
                            LAMBDA c : c.a # NoVal)
    IN  IF Len(params) > 1 THEN LogicClause("and", params)
        ELSE IF Len(params) = 1 THEN Compiled(<<Tok("Clause", params[1].name, params[1].a)>>)
        ELSE Compiled(<<Tok("None", None, NoVal)>>)

\* FilterCompiler._not_clause. It is reached for a clause whose operation is a NOT,
\* and tests that same operation, not the one it wraps, for IS, EQ, LIKE and SET:
\* the last branch is taken, where _compile is given the clause in place of an
\* expression and fails on it (a clause is no sequence of elements; if it iterates
\* as itself the calls never end)
NotClause(el) ==
    IF el.op = "IS" THEN OnColumn("isnot", el.name, el.a)
    ELSE IF el.op = "EQ" THEN OnColumn("ne", el.name, el.a)
    ELSE IF el.op = "LIKE" THEN LikeClause(el, TRUE)
    ELSE IF el.op = "SET" THEN SetClause(el, TRUE)
    ELSE Failed("TypeError: clause is not an expression")

\* self._operations[type(element.operation)](element)
CompileClause(el) ==
    IF el.op \in SimpleOps THEN SimpleClause(el)
    ELSE IF el.op = "IS" THEN OnColumn("is", el.name, el.a)
    ELSE IF el.op = "LIKE" THEN LikeClause(el, FALSE)
    ELSE IF el.op = "SET" THEN SetClause(el, FALSE)
    ELSE IF el.op = "NOT" THEN NotClause(el)
    ELSE RangeClause(el)

\* sqlalchemy.and_(a, b) / or_(a, b) of two stack entries: a Clause object among
\* them is no SQL expression; a None is taken as NULL
Combine(form, a, b) ==
    IF a[1].form = "Clause" \/ b[1].form = "Clause"
    THEN Failed("ArgumentError: SQL expression element expected")
    ELSE Compiled(<<Tok(form, None, NoVal)>> \o a \o b)

\* ClauseCompiler.__call__: an empty expression gives None; otherwise _compile runs
CompileCall ==
    /\ cPc = "new"
    /\ \E empty \in BOOLEAN :
        IF empty
        THEN /\ cPc' = "done"
             /\ cResult' = [status |-> "none", term |-> <<>>, err |-> None]
        ELSE /\ cPc' = "loop"
             /\ UNCHANGED cResult
    /\ UNCHANGED <<cExpr, cStack, notCompile>>

\* FilterCompiler._compile, one turn of the loop: AND and OR pop two entries and
\* push their combination, any other element is compiled and pushed; popping an
\* empty stack raises IndexError
CompileElement ==
    /\ cPc = "loop"
    /\ Len(cExpr) < MaxExpr
    /\ \E el \in FilterElements :
        LET n == Len(cStack)
            res == IF el.kind = "clause" THEN CompileClause(el)
                   ELSE IF n < 2 THEN Failed("IndexError: pop from an empty deque")
                   ELSE Combine(IF el.kind = "AND" THEN "and" ELSE "or",
                                cStack[n], cStack[n - 1])
            rest == IF el.kind = "clause" THEN cStack ELSE SubSeq(cStack, 1, n - 2)
        IN  /\ cExpr' = Append(cExpr, el)
            /\ IF res.ok
               THEN /\ cStack' = Append(rest, res.term)
                    /\ UNCHANGED <<cPc, cResult>>
               ELSE /\ cStack' = <<>>
                    /\ cPc' = "done"
                    /\ cResult' = [status |-> "error", term |-> <<>>, err |-> res.err]
    /\ UNCHANGED notCompile

\* `return stack.pop()`: the top of the stack, whatever lies beneath it
CompileEnd(stack) ==
    IF stack = <<>>
    THEN [status |-> "error", term |-> <<>>, err |-> "IndexError: pop from an empty deque"]
    ELSE [status |-> "value", term |-> stack[Len(stack)], err |-> None]

\* the expression is exhausted and _compile returns
CompileReturn ==
    /\ cPc = "loop"
    /\ cExpr # <<>>
    /\ cPc' = "done"
    /\ cResult' = CompileEnd(cStack)
    /\ UNCHANGED <<cExpr, cStack, notCompile>>

CompileInit ==
    /\ OrderIdle
    /\ SchemaIdle
    /\ SpaceIdle
    /\ LinkIdle
    /\ QueryIdle
    /\ WriteIdle
    /\ ReadIdle
    /\ FanIdle
    /\ ViewIdle
    /\ CompileIdle

CompileNext ==
    \/ CompileCall
    \/ CompileElement
    \/ CompileReturn

SpecCompile == CompileInit /\ [][CompileNext]_vars

\* ------------------------------------------------------ Space and names
\* a name is held as the sequence of its '__'-separated parts, each the sequence
\* of its ':'-separated fields: 'a:alt:__b' is << <<"a", "alt", "">>, <<"b">> >>
UnitNames == {"a", "b"}
UnitQuas == {None, "alt"}
UnitLabels == {None, "lbl"}

\* TrackUnit(name, qua, label)
TrackUnit(name, qua, label) == [name |-> name, qua |-> qua, label |-> label]
\* `x or None` of a field of a part: the empty string is falsy
OrNone(x) == IF x = "" THEN None ELSE x
\* `x or ''` of an attribute of a unit
OrEmpty(x) == IF x = None THEN "" ELSE x

\* TrackUnit.qualified_name
UnitQualifiedName(u) == <<u.name, OrEmpty(u.qua), OrEmpty(u.label)>>
\* TrackUnit.__str__: label or qua or name
UnitStr(u) ==
    <<IF u.label # None THEN u.label ELSE IF u.qua # None THEN u.qua ELSE u.name>>

\* a name Space.__init__ can take apart: a part of more than three fields does
\* not unpack
Parses(name) == \A i \in 1..Len(name) : Len(name[i]) <= 3
\* Space.__init__: one unit per part
ParseSpace(name) ==
    [i \in 1..Len(name) |->
        IF Len(name[i]) > 2
        THEN TrackUnit(name[i][1], OrNone(name[i][2]), OrNone(name[i][3]))
        ELSE IF Len(name[i]) = 2
        THEN TrackUnit(name[i][1], OrNone(name[i][2]), None)
        ELSE TrackUnit(name[i][1], None, None)]

\* Space.qualified_name
SpaceQualifiedName(track) == [i \in 1..Len(track) |-> UnitQualifiedName(track[i])]
\* Space.__str__
SpaceStr(track) == [i \in 1..Len(track) |-> UnitStr(track[i])]
\* Space.__add__
SpaceAdd(track, other) == ParseSpace(SpaceQualifiedName(track) \o SpaceQualifiedName(other))

\* the part a caller writes for a unit: 'name', 'name:qua' or 'name:qua:label'
WrittenPart(n, q, l) ==
    IF l # None THEN <<n, OrEmpty(q), l>>
    ELSE IF q # None THEN <<n, q>>
    ELSE <<n>>
WrittenParts == {WrittenPart(n, q, l) : n \in UnitNames, q \in UnitQuas, l \in UnitLabels}

\* Space(name) of a name of one part, as the builder and the executor make it of
\* a bucket's name
SpaceNew ==
    /\ sPc = "new"
    /\ \E part \in WrittenParts : sTrack' = ParseSpace(<<part>>)
    /\ sPc' = "space"
    /\ UNCHANGED <<sForm, sName, sBack, notSpace>>

\* space + Space(name): the builder's bucket_space + Space(element.qualified_name)
SpaceConcat ==
    /\ sPc = "space"
    /\ Len(sTrack) < MaxUnits
    /\ \E part \in WrittenParts : sTrack' = SpaceAdd(sTrack, ParseSpace(<<part>>))
    /\ UNCHANGED <<sPc, sForm, sName, sBack, notSpace>>

\* a name is produced from the Space, by str() or by qualified_name, and parsed
\* back: str(Space(name))
SpaceRoundTrip ==
    /\ sPc = "space"
    /\ \E form \in {"str", "qualified_name"} :
        LET name == IF form = "str" THEN SpaceStr(sTrack) ELSE SpaceQualifiedName(sTrack)
        IN  /\ sForm' = form
            /\ sName' = name
            /\ IF Parses(name)
               THEN /\ sBack' = SpaceStr(ParseSpace(name))
                    /\ sPc' = "named"
               ELSE /\ sBack' = <<>>
                    /\ sPc' = "failed"
    /\ UNCHANGED <<sTrack, notSpace>>

SpaceInit ==
    /\ OrderIdle
    /\ SchemaIdle
    /\ LinkIdle
    /\ QueryIdle
    /\ WriteIdle
    /\ ReadIdle
    /\ FanIdle
    /\ ViewIdle
    /\ CompileIdle
    /\ SpaceIdle

SpaceNext ==
    \/ SpaceNew
    \/ SpaceConcat
    \/ SpaceRoundTrip

SpecSpace == SpaceInit /\ [][SpaceNext]_vars

\* --------------------------------------------------- the Schema's cache
\* a table or column handle; the alias of a table and the label of a column are
\* names (<<>>: none)
Handle(kind, table, alias, name, label) ==
    [kind |-> kind, table |-> table, alias |-> alias, name |-> name, label |-> label]
\* Python's None as the result of a lookup
NoHandle == Handle("None", None, <<>>, None, <<>>)
\* the lookup raised AttributeError
RaisedHandle == Handle("raised", None, <<>>, None, <<>>)

\* the spaces looked up: one or two units, with or without a qualifier (the
\* qualifier "x" is also the name a unit and a column go by)
LookupUnits == {TrackUnit(n, q, None) : n \in {"a", "x"}, q \in UnitQuas \cup {"x"}}
LookupSpaces == UNION {[1..k -> LookupUnits] : k \in 1..2}
LookupColumns == {"x", "zz"}

CacheKeys(cache) == {e.key : e \in cache}
CacheAt(cache, key) == (CHOOSE e \in cache : e.key = key).val
Outcome(cache, result) == [cache |-> cache, result |-> result]

\* Schema.get_table: a hit of the cache under str(space); otherwise the table of
\* the last unit's name, aliased and cached when the unit has a qualifier or label
TableLookup(cache, tables, track) ==
    LET key == SpaceStr(track)
        last == track[Len(track)]
        found == last.name \in tables
    IN  IF key \in CacheKeys(cache) THEN Outcome(cache, CacheAt(cache, key))
        ELSE IF last.label # None \/ last.qua # None
        THEN IF found
             THEN LET aliased == Handle("table", last.name, key, None, <<>>)
                  IN  Outcome(cache \cup {[key |-> key, val |-> aliased]}, aliased)
             ELSE Outcome(cache, RaisedHandle)
        ELSE Outcome(cache, IF found THEN Handle("table", last.name, <<>>, None, <<>>)
                            ELSE NoHandle)

\* Schema.get_column: a hit of the cache under str(address); otherwise the column
\* of get_table's result, labelled when the space has more than one unit, and
\* cached; None when an AttributeError came up on the way
ColumnLookup(cache, tables, track, name) ==
    LET key == SpaceStr(track) \o <<<<name>>>>
        t == TableLookup(cache, tables, track)
        rest == ParseSpace(SpaceStr(SubSeq(track, 2, Len(track))))
        column == Handle("column", t.result.table, t.result.alias, name,
                         IF Len(track) > 1 THEN SpaceStr(rest) \o <<<<name>>>> ELSE <<>>)
    IN  IF key \in CacheKeys(cache) THEN Outcome(cache, CacheAt(cache, key))
        ELSE IF t.result.kind = "table" /\ name \in Columns(t.result.table)
        THEN Outcome(t.cache \cup {[key |-> key, val |-> column]}, column)
        ELSE Outcome(t.cache, NoHandle)

\* Schema.get_table(space)
SchemaGetTable ==
    /\ kCalls < MaxLookups
    /\ \E track \in LookupSpaces :
        LET out == TableLookup(kCache, kTables, track)
        IN  /\ kCache' = out.cache
            /\ kLast' = out.result
    /\ kCalls' = kCalls + 1
    /\ UNCHANGED <<kTables, notSchema>>

\* Schema.get_column(Address(name, space))
SchemaGetColumn ==
    /\ kCalls < MaxLookups
    /\ \E track \in LookupSpaces, name \in LookupColumns :
        LET out == ColumnLookup(kCache, kTables, track, name)
        IN  /\ kCache' = out.cache
            /\ kLast' = out.result
    /\ kCalls' = kCalls + 1
    /\ UNCHANGED <<kTables, notSchema>>

\* Schema.get_link(source_space, target_space): the graph is read, nothing is
\* written
SchemaGetLink ==
    /\ kCalls < MaxLookups
    /\ \E src \in {"a", "c"}, tgt \in {"b", "c", "d", "e"} :
        kLast' = Handle(LinkOf(graph, src, tgt).kind, None, <<>>, None, <<>>)
    /\ kCalls' = kCalls + 1
    /\ UNCHANGED <<kTables, kCache, notSchema>>

SchemaInit ==
    /\ OrderIdle
    /\ LinkIdle
    /\ QueryIdle
    /\ WriteIdle
    /\ ReadIdle
    /\ FanIdle
    /\ ViewIdle
    /\ CompileIdle
    /\ SpaceIdle
    /\ SchemaIdle

SchemaNext ==
    \/ SchemaGetTable
    \/ SchemaGetColumn
    \/ SchemaGetLink

SpecSchema == SchemaInit /\ [][SchemaNext]_vars

\* ------------------------------------------------- the order compiler
\* OrderCompiler (assembling.py): an order expression is a sequence of ASC/DESC
\* clauses and AND marks

\* the elements of an order expression ("zz" is a column of no table)
OrderElements ==
    {AndMark} \cup {Cl(n, op, None, NoVal, NoVal) : n \in {"x", "zz"}, op \in {"ASC", "DESC"}}
\* the space of the compiler instance: the prototype has none, get_instance gives one
OrderSpaces == {<<>>, <<"a">>}

Reverse(seq) == [i \in 1..Len(seq) |-> seq[Len(seq) + 1 - i]]

\* self._operations[type(element.operation)](column)
SortKey(space, e) == [dir |-> e.op, column |-> GetColumn(space, e.name)]

\* a mutant: a clause is pushed on the stack and AND flushes the stack
OrderStepPush(space, stack, result, e) ==
    IF e = AndMark
    THEN [stack |-> <<>>, result |-> result \o Reverse(stack)]
    ELSE [stack |-> Append(stack, SortKey(space, e)), result |-> result]

\* one turn of the loop of _compile, the instance having a space: AND pops the
\* stack into the result, a clause is appended to the result
OrderStep(space, stack, result, e) ==
    IF e = AndMark
    THEN [stack |-> <<>>, result |-> result \o Reverse(stack)]
    ELSE [stack |-> stack, result |-> Append(result, SortKey(space, e))]

\* OrderCompiler.__call__(clause) on an instance
OrderCall ==
    /\ oPc = "new"
    /\ \E sp \in OrderSpaces : oSpace' = sp
    /\ oPc' = "loop"
    /\ UNCHANGED <<oExpr, oStack, oResult, notOrder>>

\* the loop of _compile takes the next element of the expression
OrderElement ==
    /\ oPc = "loop"
    /\ Len(oExpr) < MaxOrder
    /\ \E e \in OrderElements :
        /\ oExpr' = Append(oExpr, e)
        /\ IF e # AndMark /\ oSpace = <<>>
           THEN /\ oPc' = "failed"
                /\ oStack' = <<>>
                /\ oResult' = <<>>
           ELSE LET r == OrderStep(oSpace, oStack, oResult, e)
                IN  /\ oStack' = r.stack
                    /\ oResult' = r.result
                    /\ oPc' = "loop"
    /\ UNCHANGED <<oSpace, notOrder>>

\* the expression is exhausted: return result
OrderReturn ==
    /\ oPc = "loop"
    /\ oPc' = "done"
    /\ UNCHANGED <<oSpace, oExpr, oStack, oResult, notOrder>>

OrderInit ==
    /\ OrderIdle
    /\ LinkIdle
    /\ QueryIdle
    /\ WriteIdle
    /\ ReadIdle
    /\ FanIdle
    /\ ViewIdle
    /\ CompileIdle
    /\ SpaceIdle
    /\ SchemaIdle

OrderNext == OrderCall \/ OrderElement \/ OrderReturn

SpecOrder == OrderInit /\ [][OrderNext]_vars

\* ------------------------------------------------------------- claims
\* the three kinds of relation between the units of the last get_link call, stated
\* on the foreign-key graph
M2OExists == \E fk \in graph : fk.ptab = linkSrc.name /\ FkEq(fk, linkTgt)
O2MExists == \E fk \in graph : fk.ptab = linkTgt.name /\ FkEq(fk, linkSrc)
M2MExists ==
    \E tab \in TableNames :
        /\ \E fk \in graph : fk.ptab = tab /\ FkEq(fk, linkSrc)
        /\ \E fk \in graph : fk.ptab = tab /\ FkEq(fk, linkTgt)

\* C1: get_link returns the first kind that matches, trying many-to-one, then
\* one-to-many, then many-to-many: an M2O link exactly when one exists, an O2M link
\* exactly when one exists and no M2O does, an M2M link exactly when one exists and
\* neither of the others does, and None exactly when none of the three exists.
C1_LinkOrder ==
    linkCalls = 1 =>
        /\ (linkRes.kind = "M2O") <=> M2OExists
        /\ (linkRes.kind = "O2M") <=> (~M2OExists /\ O2MExists)
        /\ (linkRes.kind = "M2M") <=> (~M2OExists /\ ~O2MExists /\ M2MExists)
        /\ (linkRes.kind = None) <=> (~M2OExists /\ ~O2MExists /\ ~M2MExists)

\* an O2M link was returned although a junction table exists for the pair as well
C1_Witness == linkCalls = 1 /\ linkRes.kind = "O2M" /\ M2MExists

\* C2: a walk that met a nested bucket with no resolvable link ends in an error,
\* never in a plan that leaves the nested bucket out.
C2_UnresolvedIsError ==
    (qPc = "done" /\ qSkipped # {}) => qResult.status = "error"

\* C3: the statement kind follows from what the walk collected: columns give a
\* select; otherwise rows give an insert without a filter and an update with one;
\* otherwise a filter alone gives a delete; nothing collected is an error. A plan
\* is produced whenever the table exists, every selected column resolved and a
\* statement other than a select carries no join, order, limit or offset.
C3_StatementKind ==
    qPc = "done" =>
        /\ qResult.status = "plan" =>
             /\ qSelect # <<>> => qResult.kind = "select"
             /\ (qSelect = <<>> /\ qValues # <<>> /\ qFilters = <<>>) => qResult.kind = "insert"
             /\ (qSelect = <<>> /\ qValues # <<>> /\ qFilters # <<>>) => qResult.kind = "update"
             /\ (qSelect = <<>> /\ qValues = <<>> /\ qFilters # <<>>) => qResult.kind = "delete"
        /\ (qSelect = <<>> /\ qValues = <<>> /\ qFilters = <<>>) => qResult.status = "error"
        /\ ( /\ qSelect # <<>> \/ qValues # <<>> \/ qFilters # <<>>
             /\ \A i \in 1..Len(qSelect) : qSelect[i] # NoColumn
             /\ qSelect = <<>> => /\ qRoot \in TableNames
                                  /\ qJoins = <<>> /\ qOrders = <<>>
                                  /\ ~Truthy(qLimit) /\ ~Truthy(qOffset) )
           => qResult.status = "plan"

\* columns and value rows were both collected, and the plan is a select
C3_Witness ==
    /\ qPc = "done" /\ qSelect # <<>> /\ qValues # <<>>
    /\ qResult.status = "plan" /\ qResult.kind = "select"

\* C4: the builder never returns an update plan when two or more value rows were
\* collected.
C4_NoMultiRowUpdate ==
    (qPc = "done" /\ Len(qValues) >= 2) =>
        ~(qResult.status = "plan" /\ qResult.kind = "update")

\* the statements of the log, and those among them of the regular write
LogStmts == [i \in 1..Len(wLog) |-> wLog[i].stmt]
RegularLog == SelectSeq(LogStmts, LAMBDA st : st.phase = "regular")
HasUpsert(inv) == \E i \in 1..Len(inv) : IsUpsert(inv[i])

IsUpsertDeleteOf(st, inv) ==
    /\ st.kind = "delete"
    /\ st.phase = "plugin"
    /\ st.clause = <<SelectSeq(inv, IsUpsert)[1].v>>

\* C6: a write request with an upsert marker (served by a client that has the
\* upsert extension) executes the marker's delete before any statement of the
\* regular write, on the same connection; a failed delete ends the request; and a
\* request that ended without any statement failing has executed the delete.
C6_UpsertDeleteFirst ==
    (HasUpsert(wInvoice) /\ (wClient = "storing" => wRegistered)) =>
        /\ \A i \in 1..Len(wLog) :
             wLog[i].stmt.phase = "regular" =>
                /\ i > 1
                /\ IsUpsertDeleteOf(wLog[1].stmt, wInvoice)
                /\ wLog[1].ok
                /\ wLog[i].stmt.conn = wLog[1].stmt.conn
        /\ (wPc \in {"done", "failed"} /\ \A i \in 1..Len(wLog) : wLog[i].ok) =>
             /\ wLog # <<>>
             /\ IsUpsertDeleteOf(wLog[1].stmt, wInvoice)

\* the same, of storing.WriteClient alone
C6_StoringOnly == wClient = "storing" => C6_UpsertDeleteFirst

\* C7: every child statement of a read was handed to the connection after its
\* parent statement had returned its rows, one nesting level below it, and its
\* membership filter holds exactly the key values of the rows the parent returned.
C7_ParentBeforeChild ==
    \A i \in 1..Len(rLog) :
        rLog[i].parent # 0 =>
            LET p == rLog[i].parent
            IN  /\ p < i
                /\ rLog[p].returned
                /\ rLog[p].retAt < i
                /\ rLog[i].depth = rLog[p].depth + 1
                /\ rLog[i].filter.has
                /\ rLog[i].filter.vals = rLog[p].keys

\* a statement two levels below the top whose parent returned two rows
C7_Witness ==
    \E i \in 1..Len(rLog) :
        /\ rLog[i].depth = 3
        /\ rLog[rLog[i].parent].keys = {1, 2}
        /\ rLog[i].filter.vals = {1, 2}

\* the relation of a nested bucket to its bucket, read off the foreign-key graph
RelationKind(s, t) ==
    IF \E fk \in graph : fk.ptab = s /\ FkEq(fk, Unit(t)) THEN "M2O"
    ELSE IF \E fk \in graph : fk.ptab = t /\ FkEq(fk, Unit(s)) THEN "O2M"
    ELSE IF \E tab \in TableNames :
               /\ \E fk \in graph : fk.ptab = tab /\ FkEq(fk, Unit(s))
               /\ \E fk \in graph : fk.ptab = tab /\ FkEq(fk, Unit(t))
         THEN "M2M"
    ELSE None
KidsOfKind(kinds) ==
    SelectSeq(rRoot.kids, LAMBDA k : RelationKind(rRoot.table, k) \in kinds)

\* C8: a finished read of a bucket with k direct O2M/M2M nested buckets, none of
\* them with deferred children of its own, has executed exactly 1 + k statements:
\* the bucket's own, with its M2O nested buckets joined into it, and one per
\* deferred child, whatever rows the bucket's statement returned.
C8_StatementCount ==
    ( /\ rPc = "done"
      /\ \A i \in 1..Len(rLog) : rLog[i].depth = 2 => rLog[i].nDeferred = 0 )
    => /\ Len(rLog) = 1 + Len(KidsOfKind({"O2M", "M2M"}))
       /\ rLog[1].joined = KidsOfKind({"M2O"})
       /\ \A i \in 2..Len(rLog) : rLog[i].parent = 1
       /\ \A i \in 1..Len(rLog) : rLog[i].returned

\* a one-to-many and a many-to-many nested bucket, a parent of two rows: three
\* statements
C8_Witness ==
    /\ rPc = "done"
    /\ Len(KidsOfKind({"O2M"})) = 1 /\ Len(KidsOfKind({"M2M"})) = 1
    /\ rLog[1].keys = {1, 2}
    /\ Len(rLog) = 3

\* C9: a request runs one task per bucket and its client returns or raises only
\* after every task has ended (finished, failed or cancelled) with no execute call
\* left in flight; a request with a failed task never returns normally.
C9_FanOutJoined ==
    /\ fPc # "new" => Len(fTasks) = fBuckets
    /\ fPc \in {"returned", "raised"} =>
         /\ \A t \in 1..Len(fTasks) : fTasks[t].state \in Terminated
         /\ fInFlight = {}
    /\ fPc = "returned" => \A t \in 1..Len(fTasks) : fTasks[t].state = "finished"

\* the request raised; one task failed and a sibling was cancelled while its
\* statement was in flight
C9_Witness ==
    /\ fPc = "raised"
    /\ \E t \in 1..Len(fTasks) : fTasks[t].state = "failed"
    /\ \E t \in 1..Len(fTasks) : fTasks[t].state = "cancelled" /\ fTasks[t].issued >= 1

\* C10: no two execute calls of the same connection are in flight at once.
C10_SingleFlight ==
    \A x, y \in fInFlight : x.conn = y.conn => x.task = y.task

\* the child rows of a key, by their place in the child's result, in that order
KidsOfKey(k) ==
    SelectSeq([i \in 1..Len(vChild) |-> i], LAMBDA i : vChild[i] = k)

\* C11: every assembled row of a bucket with a deferred child carries under the
\* child's name exactly one list: the child rows whose key is the row's key, in the
\* order the child statement returned them, empty when there is none.
C11_ChildLists ==
    (vPc \in {"rows", "done"} /\ vIndex # <<>>) =>
        /\ Len(vData) = Len(vRows)
        /\ \A i \in 1..Len(vData) :
             vData[i].lists = {[name |-> "kid", rows |-> KidsOfKey(vRows[i][KeyLabel])]}

\* two parent rows: one with two child rows, in order, one with none
C11_Witness ==
    /\ vPc = "done" /\ vIndex # <<>>
    /\ Len(vData) = 2
    /\ \E i, j \in 1..2 :
         /\ vData[i].lists = {[name |-> "kid", rows |-> <<1, 2>>]}
         /\ vData[j].lists = {[name |-> "kid", rows |-> <<>>]}

\* the nested objects of an unflattened row, by their paths
ObjectsOf(T) == UNION {{SubSeq(f.path, 1, n) : n \in 1..(Len(f.path) - 1)} : f \in T}
AllNull(T, p) == \A f \in T : IsPrefix(p, f.path) => f.val = NoVal
\* whether the view's rows went through the squeezer
Squeezed == ~(vNested /\ vIndex # <<>>)

\* C12: in every squeezed row a nested object, at any depth, all of whose leaves
\* are null is not an object of the result (a null stands at its place or at the
\* place of an enclosing object), and a nested object with a non-null leaf is kept
\* as an object.
C12_AllNullCollapses ==
    Squeezed =>
        \A i \in 1..Len(vData) :
            LET T == Nestify(vRows[i])
                out == vData[i].fields
            IN  \A p \in ObjectsOf(T) :
                    IF AllNull(T, p)
                    THEN /\ ~\E f \in out : IsPrefix(p, f.path)
                         /\ \E f \in out : f.val = NoVal /\ (f.path = p \/ IsPrefix(f.path, p))
                    ELSE \E f \in out : IsPrefix(p, f.path)

\* the same, of the nested objects that hold leaves only
C12_LeafObjectsOnly ==
    Squeezed =>
        \A i \in 1..Len(vData) :
            LET T == Nestify(vRows[i])
                out == vData[i].fields
            IN  \A p \in ObjectsOf(T) :
                    (\A q \in ObjectsOf(T) : ~IsPrefix(p, q)) =>
                        IF AllNull(T, p)
                        THEN \E f \in out : f.val = NoVal /\ (f.path = p \/ IsPrefix(f.path, p))
                        ELSE \E f \in out : IsPrefix(p, f.path)

\* C13: the view of a top-level bucket with the total marker reports as meta the
\* total of the first returned row, or 0 when no row was returned, and no
\* assembled row holds the total field.
C13_TotalMeta ==
    (vPc = "done" /\ ~vNested /\ TotalLabel \in vLabels) =>
        /\ vMeta.has
        /\ vMeta.total = IF vRows = <<>> THEN 0 ELSE vRows[1][TotalLabel]
        /\ \A i \in 1..Len(vData) : ~\E f \in vData[i].fields : f.path = <<TotalLabel>>

\* the same, of the views with at least one row
C13_NonEmptyOnly == vRows # <<>> => C13_TotalMeta

\* the size of the stack after the postfix reduction of the elements up to the
\* i-th: a clause adds one entry, a combinator replaces two by one; -1 once a
\* combinator found fewer than two
RECURSIVE Reduced(_, _)
Reduced(expr, i) ==
    IF i = 0 THEN 0
    ELSE LET before == Reduced(expr, i - 1)
         IN  IF before = -1 THEN -1
             ELSE IF expr[i].kind = "clause" THEN before + 1
             ELSE IF before < 2 THEN -1
             ELSE before - 1

\* C14: a filter expression whose postfix reduction does not leave exactly one
\* element never compiles to a predicate.
C14_MalformedIsError ==
    (cPc = "done" /\ cExpr # <<>> /\ Reduced(cExpr, Len(cExpr)) # 1) =>
        cResult.status = "error"

\* the same, of the expressions that underflow the stack
C14_UnderflowOnly ==
    (cPc = "done" /\ cExpr # <<>> /\ Reduced(cExpr, Len(cExpr)) = -1) =>
        cResult.status = "error"

\* the compiled predicate of one bound of a range
BoundPredicate(name, form, v) == <<Tok(form, name, v)>>

\* C15: an expression of one RANGE clause compiles to nothing when both bounds are
\* null, to the predicate of the one bound that is not, and to the conjunction of
\* the predicates of both bounds when neither is.
C15_RangeCompile ==
    (cPc = "done" /\ Len(cExpr) = 1 /\ cExpr[1].op = "RANGE") =>
        LET el == cExpr[1]
            lo == BoundPredicate(el.name, "ge", el.a)
            hi == BoundPredicate(el.name, "le", el.b)
        IN  /\ cResult.status = "value"
            /\ (el.a = NoVal /\ el.b = NoVal) => cResult.term = <<Tok("None", None, NoVal)>>
            /\ (el.a # NoVal /\ el.b = NoVal) => cResult.term = lo
            /\ (el.a = NoVal /\ el.b # NoVal) => cResult.term = hi
            /\ (el.a # NoVal /\ el.b # NoVal) =>
                 cResult.term = <<Tok("and", None, NoVal)>> \o lo \o hi

\* the same, of the ranges without a bound
C15_NoBoundOnly == (cExpr # <<>> /\ (cExpr[1].a # NoVal \/ cExpr[1].b # NoVal)) \/ C15_RangeCompile

\* C16: an expression of one NOT clause compiles to the inverted form of the
\* operation it wraps: not-like (of the same case sensitivity) for LIKE, not-in
\* for SET, is-not for IS, inequality for EQ.
C16_NotCompile ==
    (cPc = "done" /\ Len(cExpr) = 1 /\ cExpr[1].op = "NOT"
        /\ cExpr[1].inner \in {"LIKE", "SET", "IS", "EQ"}) =>
        LET el == cExpr[1]
        IN  /\ cResult.status = "value"
            /\ Len(cResult.term) = 1
            /\ cResult.term[1].col = el.name
            /\ cResult.term[1].form \in
                 CASE el.inner = "LIKE" -> {"notlike", "notilike"}
                   [] el.inner = "SET" -> {"notin"}
                   [] el.inner = "IS" -> {"isnot"}
                   [] OTHER -> {"ne"}

\* C17: no plan is built for a bucket whose selected item, filter clause or order
\* clause names a column get_column does not find.
C17_MissingColumnIsError ==
    (qPc = "done" /\ qResult.status = "plan") =>
        /\ \A i \in 1..Len(qSelect) : qSelect[i] # NoColumn
        /\ \A i \in 1..Len(qFilters) : \A j \in 1..Len(qFilters[i]) : qFilters[i][j] # NoColumn
        /\ \A i \in 1..Len(qOrders) : qOrders[i] # NoColumn

\* the same, of selected items and filter clauses
C17_SelectAndFilterOnly ==
    (qPc = "done" /\ qResult.status = "plan") =>
        /\ \A i \in 1..Len(qSelect) : qSelect[i] # NoColumn
        /\ \A i \in 1..Len(qFilters) : \A j \in 1..Len(qFilters[i]) : qFilters[i][j] # NoColumn

\* C18: a name produced from a Space, by str() or as its qualified name, with or
\* without qualifiers and labels, of one unit or of a concatenation, parses back
\* to a Space whose string form is that name.
C18_NameRoundTrip ==
    sPc \in {"named", "failed"} => (sPc = "named" /\ sBack = sName)

\* the same, of the names produced by str()
C18_StrFormOnly ==
    (sPc \in {"named", "failed"} /\ sForm = "str") => (sPc = "named" /\ sBack = sName)

\* C19: whatever lookups were made on a Schema, its foreign-key graph, its table
\* index and its cache are as its constructor left them.
C19_LookupsDoNotMutate ==
    /\ graph = ReadGraph
    /\ kTables = TableNames
    /\ kCache = {}

\* the same, of the graph and the table index
C19_GraphAndTablesOnly ==
    /\ graph = ReadGraph
    /\ kTables = TableNames

\* C20: the joins of a built plan are pairwise different: a relation the walk
\* met more than once is joined once.
C20_JoinsDeduplicated ==
    (qPc = "done" /\ qResult.status = "plan") =>
        \A i, j \in 1..Len(qResult.joins) :
            i # j => qResult.joins[i] # qResult.joins[j]

\* C21: a Slice inside a joined nested bucket never sets or changes the limit
\* or the offset of the statement: the step that ends a nested bucket leaves
\* both as they were.
C21_NestedSliceIgnored ==
    [][(qPc = "walk" /\ Len(qStack) > 1) =>
          (qLimit' = qLimit /\ qOffset' = qOffset)]_vars

\* C21, the part that holds: when the walk joined no nested bucket, the step that
\* ends the top-level bucket leaves the limit and the offset that bucket
\* declared, unset for none and for zero.
C21_TopLevelAlone ==
    [][(qPc = "walk" /\ Len(qStack) = 1 /\ qPc' = "build" /\ qJoins = <<>>) =>
          /\ qLimit' = (IF Truthy(qStack[1].lim) THEN qStack[1].lim ELSE NoVal)
          /\ qOffset' = (IF Truthy(qStack[1].off) THEN qStack[1].off ELSE NoVal)]_vars

\* the clauses of an order expression, the AND marks left out
Atoms(expr) == SelectSeq(expr, LAMBDA e : e # AndMark)

\* C22: the order compiler returns exactly one sort key per clause of the
\* expression, in the order of the clauses, wherever the AND marks stand.
C22_OneKeyPerAtom ==
    oPc = "done" =>
        /\ Len(oResult) = Len(Atoms(oExpr))
        /\ \A i \in 1..Len(oResult) :
              /\ oResult[i].dir = Atoms(oExpr)[i].op
              /\ oResult[i].column = GetColumn(oSpace, Atoms(oExpr)[i].name)

\* C22 happens: two different clauses with an AND mark between them were compiled.
C22_Witness ==
    /\ oPc = "done"
    /\ Len(oExpr) = 3
    /\ oExpr[1] # AndMark
    /\ oExpr[2] = AndMark
    /\ oExpr[3] # AndMark
    /\ oExpr[3] # oExpr[1]
    /\ Len(oResult) = 2

\* the step is one call get_table(space), space having the given track
GetTableStep(track) ==
    /\ kCalls < MaxLookups
    /\ kCalls' = kCalls + 1
    /\ kCache' = TableLookup(kCache, kTables, track).cache
    /\ kLast' = TableLookup(kCache, kTables, track).result

\* what get_table(space) may return: a table handle of the last unit's name, or
\* nothing
TableOfLastUnit(track, h) ==
    /\ h.kind # "column"
    /\ h.kind = "table" => h.table = track[Len(track)].name

\* C23: whatever lookups came before, get_table(space) returns a handle of the
\* table the last unit of space names, or none: never a column, never a handle
\* of another table.
C23_TableOfLastUnit ==
    [][\A track \in LookupSpaces : GetTableStep(track) => TableOfLastUnit(track, kLast')]_vars

\* C23, the part that holds: on a Schema whose cache is still empty get_table
\* returns a handle of the table the last unit names, or none.
C23_EmptyCacheOnly ==
    [][\A track \in LookupSpaces :
          (kCache = {} /\ GetTableStep(track)) => TableOfLastUnit(track, kLast')]_vars

\* C24: write.WriteExecutor, called with a bucket that carries no upsert marker
\* and that the builder can make a statement of, hands exactly that statement to
\* the connection and nothing else, and ends without an error unless the
\* statement itself failed.
C24_PlainWriteOneStatement ==
    (/\ wClient = "write"
     /\ ~HasUpsert(wInvoice)
     /\ BucketStatement(wInvoice, wConn) # <<>>
     /\ wPc \in {"done", "failed"}
     /\ \A i \in 1..Len(wLog) : wLog[i].ok) =>
        /\ wPc = "done"
        /\ LogStmts = BucketStatement(wInvoice, wConn)

====
